---- MODULE Spec2Model ----
(***************************************************************************)
(* Model of billing/gateways/pin_gateway.py: the PinGateway adapter.  One  *)
(* gateway call is one step.  A step records what the call did, in order   *)
(* (log), the transport requests it issued, the signals it sent, and what  *)
(* it returned or raised; the three Django tables it writes (PinCard,      *)
(* PinCharge, PinCustomer) persist from call to call.                      *)
(*                                                                         *)
(* Python values: a dict is a function over its string keys (a record);    *)
(* JSON true/false/null inside a reply are the strings "true", "false",    *)
(* "null"; the object None is the record None; a Decimal amount is an      *)
(* integer count of thousandths of the major unit; a str built from an     *)
(* int is the sequence of its characters.                                  *)
(***************************************************************************)
EXTENDS Integers, Sequences, FiniteSets, TLC

VARIABLES
    cards,      \* rows of the PinCard table
    charges,    \* rows of the PinCharge table
    customers,  \* rows of the PinCustomer table
    op,         \* name of the last gateway method called ("none" at start)
    args,       \* its arguments
    requests,   \* transport requests the call issued, in order
    resp,       \* the decoded reply as the call holds it when it ends
    signals,    \* signals the call sent, in order
    log,        \* the call's steps, in order
    result,     \* what the call returned, or Raised(exception)
    calls       \* number of gateway calls made so far

vars ==
    <<cards, charges, customers, op, args, requests, resp, signals, log, result,
      calls>>

\* ---------------------------------------------------------------- bounds
\* gateway calls in one behaviour
MaxCalls == 2
\* amounts of the _pin_base specification: -MaxMoney .. MaxMoney thousandths
MaxMoney == 30

\* ------------------------------------------------------- python values
None == [kind |-> "None"]

Raised(exc) == [raised |-> exc]

Has(d, k) == k \in DOMAIN d

Get(d, k, default) == IF k \in DOMAIN d THEN d[k] ELSE default

Del(d, k) == [j \in DOMAIN d \ {k} |-> d[j]]

Put(d, k, v) == [j \in DOMAIN d \cup {k} |-> IF j = k THEN v ELSE d[j]]

\* thousandths per major unit: the scale of the modelled Decimal
Scale == 1000

Digits == <<"0", "1", "2", "3", "4", "5", "6", "7", "8", "9">>

RECURSIVE StrNat(_)
StrNat(n) ==
    IF n < 10 THEN <<Digits[n + 1]>>
    ELSE Append(StrNat(n \div 10), Digits[(n % 10) + 1])

\* str(i) of a Python int: its decimal characters, "-" first when negative
str(i) == IF i < 0 THEN <<"-">> \o StrNat(-i) ELSE StrNat(i)

\* a bug: rounds half up instead of dropping the fraction
int_rounding(x) == (x + (Scale \div 2)) \div Scale

\* int(d) of a Decimal d (x thousandths): drops the fraction, toward zero
int(x) == IF x >= 0 THEN x \div Scale ELSE -((-x) \div Scale)

\* "%02d" % n
Fmt02d(n) == IF n >= 0 /\ n < 10 THEN <<"0">> \o str(n) ELSE str(n)

default_currency == "AUD"

SSIG ==
    [true  |-> <<"SUCCESS", "transaction_was_successful">>,
     false |-> <<"FAILURE", "transaction_was_unsuccessful">>]

\* ------------------------------------------------------ request builders
_pin_base(money, options) ==
    [amount      |-> str(int(money * 100)),
     email       |-> Get(options, "email", ""),
     description |-> Get(options, "description", ""),
     currency    |-> Get(options, "currency", default_currency),
     ip_address  |-> Get(options, "ip", "")]

\* options['billing_address'] and the address' required keys are present
CanBuildCard(options) ==
    /\ Has(options, "billing_address")
    /\ {"address1", "city", "zip", "state", "country"}
           \subseteq DOMAIN options.billing_address

_pin_card(credit_card, options) ==
    LET address == options.billing_address
    IN  [number           |-> credit_card.number,
         expiry_month     |-> Fmt02d(credit_card.month),
         expiry_year      |-> str(credit_card.year),
         cvc              |-> credit_card.verification_value,
         name             |-> <<credit_card.first_name, " ", credit_card.last_name>>,
         address_line1    |-> address.address1,
         address_line2    |-> Get(address, "address2", ""),
         address_city     |-> address.city,
         address_postcode |-> address.zip,
         address_state    |-> address.state,
         address_country  |-> address.country]

\* --------------------------------------------------- response classifier
\* a bug: the signal is chosen by the envelope's presence alone
_pin_response_ignores_flag(r, signal_type, obj) ==
    LET present == Has(r, "response")
        payload == IF present THEN r.response ELSE r
        success == IF present THEN "true" ELSE "false"
    IN  [exc  |-> "",
         sent |-> <<[signal |-> SSIG[success][2], type |-> signal_type,
                     response |-> payload]>>,
         ret  |-> [status |-> SSIG[success][1], response |-> payload, obj |-> obj]]

\* a bug: every reply is signalled as a success, whatever status is returned
_pin_response_wrong_signal(r, signal_type, obj) ==
    LET present == Has(r, "response")
        payload == IF present THEN r.response ELSE r
        success == IF present
                   THEN IF Has(payload, "success") THEN payload.success ELSE "true"
                   ELSE "false"
    IN  IF success \notin DOMAIN SSIG
        THEN [exc |-> "KeyError", sent |-> <<>>, ret |-> None]
        ELSE [exc  |-> "",
              sent |-> <<[signal |-> SSIG["true"][2], type |-> signal_type,
                          response |-> payload]>>,
              ret  |-> [status |-> SSIG[success][1], response |-> payload,
                        obj |-> obj]]

\* _pin_response(resp, signal_type, obj): exc is the exception it raises ("" when
\* none), sent the signals it sends, ret the dict it returns
_pin_response(r, signal_type, obj) ==
    LET present == Has(r, "response")
        payload == IF present THEN r.response ELSE r
        success == IF present
                   THEN IF Has(payload, "success") THEN payload.success ELSE "true"
                   ELSE "false"
    IN  IF success \notin DOMAIN SSIG
        THEN [exc |-> "KeyError", sent |-> <<>>, ret |-> None]
        ELSE [exc  |-> "",
              sent |-> <<[signal |-> SSIG[success][2], type |-> signal_type,
                          response |-> payload]>>,
              ret  |-> [status |-> SSIG[success][1], response |-> payload,
                        obj |-> obj]]

\* ------------------------------------------------------------- entities
\* attributes of the PinCard model that a wire card field can land on
PinCardFields ==
    {"number", "expiry_month", "expiry_year", "cvc", "address_line1",
     "address_line2", "address_city", "address_postcode", "address_state",
     "address_country", "first_name", "last_name"}

\* card = PinCard(); copy the wire fields the model has; reattach the names
BuildCard(data_card, credit_card) ==
    LET copied == [k \in DOMAIN data_card \cap PinCardFields |-> data_card[k]]
    IN  Put(Put(copied, "first_name", credit_card.first_name),
            "last_name", credit_card.last_name)

\* a bug: the charge is built without its card
PinCharge_unlinked(card) == [card |-> None]

\* PinCharge(card=card), PinCharge(): a charge row not saved yet
PinCharge(card) == [card |-> card]

\* PinCustomer(card=card): a customer row not saved yet
PinCustomer(card) == [card |-> card]

\* obj.save() of a new row: the table's next primary key
Saved(obj, table) == Put(obj, "id", Cardinality(table) + 1)

\* the table holds another row under the row's token: tokens key the stored
\* charges and customers, so saving the row raises (IntegrityError)
TokenTaken(row, table) ==
    \E r \in table : r.id # row.id /\ r.token = row.token

\* for key, value in response.items(): if key != 'card': setattr(obj, key, value)
CopyFields(obj, response) ==
    LET keys == DOMAIN response \ {"card"}
    IN  [k \in DOMAIN obj \cup keys |-> IF k \in keys THEN response[k] ELSE obj[k]]

\* charge.amount = Decimal(charge.amount) / Decimal("100.00")
\* charge.error_message = charge.error_message or ''
NormalizeCharge(charge) ==
    [charge EXCEPT
        !.amount = (charge.amount * Scale) \div 100,
        !.error_message = IF charge.error_message \in {"null", ""}
                          THEN "" ELSE charge.error_message]

\* del response['card']['name'] raises KeyError
DelNameRaises(r) ==
    ~(Has(r.response, "card") /\ Has(r.response.card, "name"))

\* response = copy(resp['response']); del response['card']['name']: the copy is
\* shallow, so the nested card dict of resp itself loses its name
DelName(r) ==
    [r EXCEPT !.response = Put(r.response, "card", Del(r.response.card, "name"))]

\* a bug: persists whenever the reply has an envelope, commit or not
ShouldPersist_ignores_commit(commit, r) == Has(r, "response")

\* if commit and 'response' in resp:
ShouldPersist(commit, r) == commit /\ Has(r, "response")

\* ------------------------------------------------------------- outcomes
Out(c, ch, cu, reqs, r, sigs, lg, res) ==
    [cards |-> c, charges |-> ch, customers |-> cu, requests |-> reqs,
     resp |-> r, signals |-> sigs, log |-> lg, result |-> res]

\* return self._pin_response(resp, type, obj), after the steps lg
Classify(c, ch, cu, reqs, r, lg, signal_type, obj) ==
    LET pr == _pin_response(r, signal_type, obj)
    IN  IF pr.exc # ""
        THEN Out(c, ch, cu, reqs, r, <<>>, lg \o <<"raise">>, Raised(pr.exc))
        ELSE Out(c, ch, cu, reqs, r, pr.sent, lg \o <<"signal", "return">>, pr.ret)

Request(method, url, data) == [method |-> method, url |-> url, data |-> data]

\* ------------------------------------------------------------- handlers
\* Each handler is the outcome of one call on the current tables, given the
\* reply the transport decodes and which save() of the call, if any, raises
\* (fail = 0: none; 1: the first; 2: the second).

\* purchase(money, credit_card, options, commit)
purchase(money, credit_card, options, commit, reply, fail) ==
    IF ~CanBuildCard(options)
    THEN Out(cards, charges, customers, <<>>, None, <<>>, <<"raise">>,
             Raised("KeyError"))
    ELSE
    LET data == Put(_pin_base(money, options), "card",
                    _pin_card(credit_card, options))
        reqs == <<Request("post", <<"/charges">>, data)>>
    IN  IF ~ShouldPersist(commit, reply)
        THEN Classify(cards, charges, customers, reqs, reply, <<"request">>,
                      "purchase", None)
        ELSE IF DelNameRaises(reply)
        THEN Out(cards, charges, customers, reqs, reply, <<>>,
                 <<"request", "raise">>, Raised("KeyError"))
        ELSE IF fail = 1
        THEN Out(cards, charges, customers, reqs, DelName(reply), <<>>,
                 <<"request", "raise">>, Raised("DatabaseError"))
        ELSE
        LET r2     == DelName(reply)
            card   == Saved(BuildCard(data.card, credit_card), cards)
            charge == NormalizeCharge(CopyFields(PinCharge(card), r2.response))
            saved  == Saved(charge, charges)
        IN  IF fail = 2 \/ TokenTaken(saved, charges)
            THEN Out(cards \cup {card}, charges, customers, reqs, r2, <<>>,
                     <<"request", "save_card", "raise">>, Raised("DatabaseError"))
            ELSE Classify(cards \cup {card}, charges \cup {saved}, customers,
                          reqs, r2, <<"request", "save_card", "save_charge">>,
                          "purchase", saved)

\* authorization.startswith(prefix), for the tokens of the model
StartsWith(token, prefix) ==
    \/ prefix = "cus_" /\ token \in {"cus_1", "cus_2"}
    \/ prefix = "card_" /\ token \in {"card_1"}

\* capture(money, authorization, options, commit)
capture(money, authorization, options, commit, reply, fail) ==
    LET base == _pin_base(money, options)
        data == IF StartsWith(authorization, "cus_")
                THEN Put(base, "customer_token", authorization)
                ELSE IF StartsWith(authorization, "card_")
                THEN Put(base, "card_token", authorization)
                ELSE base
        reqs == <<Request("post", <<"/charges">>, data)>>
    IN  IF ~ShouldPersist(commit, reply)
        THEN Classify(cards, charges, customers, reqs, reply, <<"request">>,
                      "capture", None)
        ELSE IF DelNameRaises(reply)
        THEN Out(cards, charges, customers, reqs, reply, <<>>,
                 <<"request", "raise">>, Raised("KeyError"))
        ELSE IF fail = 1
        THEN Out(cards, charges, customers, reqs, DelName(reply), <<>>,
                 <<"request", "raise">>, Raised("DatabaseError"))
        ELSE
        LET r2     == DelName(reply)
            charge == NormalizeCharge(CopyFields(PinCharge(None), r2.response))
            saved  == Saved(charge, charges)
        IN  IF TokenTaken(saved, charges)
            THEN Out(cards, charges, customers, reqs, r2, <<>>,
                     <<"request", "raise">>, Raised("DatabaseError"))
            ELSE Classify(cards, charges \cup {saved}, customers, reqs, r2,
                          <<"request", "save_charge">>, "capture", saved)

\* authorize(money, credit_card, options): the name card of line 118 is bound
\* nowhere, so evaluating the arguments of _pin_response raises NameError
authorize(money, credit_card, options, reply) ==
    IF ~CanBuildCard(options)
    THEN Out(cards, charges, customers, <<>>, None, <<>>, <<"raise">>,
             Raised("KeyError"))
    ELSE Out(cards, charges, customers,
             <<Request("post", <<"/cards">>, _pin_card(credit_card, options))>>,
             reply, <<>>, <<"request", "raise">>, Raised("NameError"))

\* credit(money, identification, options)
credit(money, identification, options, reply) ==
    Classify(cards, charges, customers,
             <<Request("post", <<"/", identification, "/refunds">>, <<>>)>>,
             reply, <<"request">>, "credit", None)

\* void, recurring, unstore
NotImplemented ==
    Out(cards, charges, customers, <<>>, None, <<>>, <<"raise">>,
        Raised("NotImplementedError"))

\* a bug: a store call with a token never finds the stored customer
FindCustomer_never(options) == {}

\* PinCustomer.objects.get(token=options['token']): the rows that match
FindCustomer(options) == {c \in customers : c.token = options.token}

\* store(credit_card, options, commit)
store(credit_card, options, commit, reply, fail) ==
    IF ~CanBuildCard(options)
    THEN Out(cards, charges, customers, <<>>, None, <<>>, <<"raise">>,
             Raised("KeyError"))
    ELSE
    LET data  == [email |-> options.email, card |-> _pin_card(credit_card, options)]
        reqs  == IF Has(options, "token")
                 THEN <<Request("put", <<"/customers/", options.token>>, data)>>
                 ELSE <<Request("post", <<"/customers">>, data)>>
        found == IF Has(options, "token") THEN FindCustomer(options) ELSE {}
        lg    == IF Has(options, "token") THEN <<"request", "get">> ELSE <<"request">>
        \* tokens key the table: get() finds one row or none (DoesNotExist)
        customer == IF found = {} THEN None ELSE CHOOSE c \in found : TRUE
    IN  IF ~ShouldPersist(commit, reply)
        THEN Classify(cards, charges, customers, reqs, reply, lg,
                      "store", customer)
        ELSE IF DelNameRaises(reply)
        THEN Out(cards, charges, customers, reqs, reply, <<>>,
                 lg \o <<"raise">>, Raised("KeyError"))
        ELSE IF fail = 1
        THEN Out(cards, charges, customers, reqs, DelName(reply), <<>>,
                 lg \o <<"raise">>, Raised("DatabaseError"))
        ELSE
        LET r2    == DelName(reply)
            card  == Saved(BuildCard(data.card, credit_card), cards)
            fresh == customer = None
            cust  == CopyFields(IF fresh THEN PinCustomer(card)
                                ELSE [customer EXCEPT !.card = card],
                                r2.response)
            saved == IF fresh THEN Saved(cust, customers) ELSE cust
        IN  IF fail = 2 \/ TokenTaken(saved, customers)
            THEN Out(cards \cup {card}, charges, customers, reqs, r2, <<>>,
                     lg \o <<"save_card", "raise">>, Raised("DatabaseError"))
            ELSE Classify(cards \cup {card}, charges,
                          (customers \ {customer}) \cup {saved}, reqs, r2,
                          lg \o <<"save_card", "save_customer">>,
                          "store", saved)

\* --------------------------------------------------------------- inputs
CreditCard ==
    [number |-> "4200000000000000", month |-> 5, year |-> 2030,
     verification_value |-> "123", first_name |-> "Ann", last_name |-> "Lee"]

Address ==
    [address1 |-> "1 Main St", city |-> "Perth", zip |-> "6000",
     state |-> "WA", country |-> "AU"]

WithAddress == [email |-> "ann@example.com", billing_address |-> Address]

NoAddress == [description |-> "order 1"]

CustomerTokens == {"cus_1", "cus_2"}

ChargeTokens == {"ch_1", "ch_2"}

\* amount of the calls, in thousandths: 10.005
Moneys == {10005}

\* the "response" envelope of a reply; flag is the value of its success key
Envelope(kind, flag, token, named) ==
    LET card == IF named THEN [token |-> "card_1", name |-> "Ann Lee"]
                ELSE [token |-> "card_1"]
        body == IF kind = "customer"
                THEN [token |-> token, email |-> "ann@example.com", card |-> card]
                ELSE [token |-> token, amount |-> 999, card |-> card,
                      error_message |-> IF flag = "false" THEN "declined" ELSE "null"]
    IN  IF flag = "absent" THEN body ELSE Put(body, "success", flag)

\* the decoded replies the transport may hand back for a request of a kind
Replies(kind) ==
    {[error |-> "invalid_resource"]}
    \cup {[response |-> Envelope(kind, flag, token, TRUE)] :
            flag \in {"absent", "true", "false", "null"},
            token \in IF kind = "customer" THEN CustomerTokens ELSE ChargeTokens}
    \cup {[response |->
              Envelope(kind, "true",
                       IF kind = "customer" THEN "cus_1" ELSE "ch_1", FALSE)]}

\* which save() of a call raises: 0 for none, else its position among the n
\* saves of the call; a call that persists nothing has no save to fail
Failures(commit, reply, n) == IF ShouldPersist(commit, reply) THEN 0..n ELSE {0}

\* -------------------------------------------------------------- actions
Apply(name, a, out) ==
    /\ calls < MaxCalls
    /\ \E o \in {out} :
          /\ op' = name
          /\ args' = a
          /\ cards' = o.cards
          /\ charges' = o.charges
          /\ customers' = o.customers
          /\ requests' = o.requests
          /\ resp' = o.resp
          /\ signals' = o.signals
          /\ log' = o.log
          /\ result' = o.result
          /\ calls' = calls + 1

Init ==
    /\ cards = {}
    /\ charges = {}
    /\ customers = {}
    /\ op = "none"
    /\ args = None
    /\ requests = <<>>
    /\ resp = None
    /\ signals = <<>>
    /\ log = <<>>
    /\ result = None
    /\ calls = 0

Purchase ==
    \E money \in Moneys, options \in {WithAddress, NoAddress},
          commit \in BOOLEAN, reply \in Replies("charge") :
       \E fail \in Failures(commit, reply, 2) :
          Apply("purchase",
                [money |-> money, credit_card |-> CreditCard,
                 options |-> options, commit |-> commit],
                purchase(money, CreditCard, options, commit, reply, fail))

Capture ==
    \E money \in Moneys, authorization \in {"cus_1", "card_1", "tok_1"},
          options \in {NoAddress},
          commit \in BOOLEAN, reply \in Replies("charge") :
       \E fail \in Failures(commit, reply, 1) :
          Apply("capture",
                [money |-> money, authorization |-> authorization,
                 options |-> options, commit |-> commit],
                capture(money, authorization, options, commit, reply, fail))

Authorize ==
    \E money \in Moneys, options \in {WithAddress, NoAddress},
       reply \in Replies("card") :
       Apply("authorize",
             [money |-> money, credit_card |-> CreditCard, options |-> options],
             authorize(money, CreditCard, options, reply))

Credit ==
    \E money \in Moneys, reply \in Replies("refund") :
       Apply("credit",
             [money |-> money, identification |-> "ch_1", options |-> NoAddress],
             credit(money, "ch_1", NoAddress, reply))

Store ==
    \E options \in {WithAddress, [email |-> "ann@example.com"]}
                      \cup {Put(WithAddress, "token", t) : t \in CustomerTokens},
          commit \in BOOLEAN, reply \in Replies("customer") :
       \E fail \in Failures(commit, reply, 2) :
          Apply("store",
                [credit_card |-> CreditCard, options |-> options, commit |-> commit],
                store(CreditCard, options, commit, reply, fail))

Void ==
    Apply("void", [identification |-> "ch_1"], NotImplemented)

Recurring ==
    Apply("recurring", [money |-> 9990, credit_card |-> CreditCard], NotImplemented)

Unstore ==
    Apply("unstore", [identification |-> "cus_1"], NotImplemented)

Next ==
    \/ Purchase
    \/ Capture
    \/ Authorize
    \/ Credit
    \/ Store
    \/ Void
    \/ Recurring
    \/ Unstore

Spec == Init /\ [][Next]_vars

\* ------------------------------------------- the _pin_base specification
\* _pin_base applied once to an amount of either sign and to options with and
\* without the optional keys
InitBase ==
    /\ cards = {}
    /\ charges = {}
    /\ customers = {}
    /\ op = "none"
    /\ args \in {[money |-> m, options |-> o] :
                    m \in (-MaxMoney)..MaxMoney, o \in {WithAddress, NoAddress}}
    /\ requests = <<>>
    /\ resp = None
    /\ signals = <<>>
    /\ log = <<>>
    /\ result = None
    /\ calls = 0

PinBase ==
    /\ op = "none"
    /\ op' = "_pin_base"
    /\ result' = _pin_base(args.money, args.options)
    /\ UNCHANGED <<cards, charges, customers, args, requests, resp, signals,
                   log, calls>>

NextBase == PinBase

SpecBase == InitBase /\ [][NextBase]_vars

\* ------------------------------------------------------------- claims
Returned(res) == Has(res, "status")

SaveSteps == {"save_card", "save_charge", "save_customer"}

SavesOf(lg) == {i \in DOMAIN lg : lg[i] \in SaveSteps}

PersistOps == {"purchase", "capture", "store"}

ClassifyOps == {"purchase", "capture", "credit", "store"}

\* the reply carries no success flag, or a boolean one
BooleanFlag(r) ==
    Has(r, "response") /\ Has(r.response, "success")
        => r.response.success \in {"true", "false"}

\* C1 (as claimed): a call of purchase, capture or store that returns has
\* written to the Store only if commit is true and its returned status is SUCCESS
C1_WritesOnlyOnCommittedSuccess ==
    (op \in PersistOps /\ Returned(result) /\ SavesOf(log) # {})
        => (args.commit /\ result.status = "SUCCESS")

\* C2: a call of purchase, capture or store with commit=false leaves the three
\* tables as they were and saves nothing; when its request can be built it
\* issues exactly one transport request, and for a reply with no envelope or
\* with success true, false or absent it is classified, signalled and returns
C2_NoCommitNoWrites ==
    [][(op' \in PersistOps /\ ~args'.commit) =>
          LET valid == op' = "capture" \/ CanBuildCard(args'.options)
          IN  /\ cards' = cards
              /\ charges' = charges
              /\ customers' = customers
              /\ SavesOf(log') = {}
              /\ valid => Len(requests') = 1
              /\ (valid /\ BooleanFlag(resp'))
                     => (Returned(result') /\ Len(signals') = 1)]_vars

\* C2 witness: a dry-run store, on a token whose customer is stored, came back
\* SUCCESS
C2_Witness ==
    /\ op = "store"
    /\ ~args.commit
    /\ Has(args.options, "token")
    /\ \E c \in customers : c.token = args.options.token
    /\ Returned(result)
    /\ result.status = "SUCCESS"

\* C3 (as claimed): a call of purchase, capture or store with commit=false
\* returns obj = None
C3_NoCommitNullObj ==
    (op \in PersistOps /\ Returned(result) /\ ~args.commit)
        => result.obj = None

\* C4: a committed store call that returns SUCCESS writes exactly one customer;
\* with a token it PUTs to /customers/{token} and, when a customer is stored
\* under the token, updates that row in place (the table does not grow),
\* otherwise adds a row; without a token it POSTs to /customers and adds a row;
\* the written customer's card is the one card this call added, the newest
C4_StoreUpsert ==
    [][(op' = "store" /\ args'.commit /\ Returned(result')
            /\ result'.status = "SUCCESS") =>
          LET o       == args'.options
              found   == IF Has(o, "token")
                         THEN {c \in customers : c.token = o.token} ELSE {}
              added   == cards' \ cards
              written == result'.obj
          IN  /\ Cardinality({i \in DOMAIN log' : log'[i] = "save_customer"}) = 1
              /\ Len(requests') = 1
              /\ IF Has(o, "token")
                 THEN /\ requests'[1].method = "put"
                      /\ requests'[1].url = <<"/customers/", o.token>>
                 ELSE /\ requests'[1].method = "post"
                      /\ requests'[1].url = <<"/customers">>
              /\ Cardinality(added) = 1
              /\ written.card \in added
              /\ written.card.id = Cardinality(cards')
              /\ \A c \in cards' : c.id <= written.card.id
              /\ IF found # {}
                 THEN /\ customers' = (customers \ found) \cup {written}
                      /\ Cardinality(customers') = Cardinality(customers)
                      /\ \E c \in found : c.id = written.id
                 ELSE /\ customers' = customers \cup {written}
                      /\ Cardinality(customers') = Cardinality(customers) + 1
                      /\ \A c \in customers : c.id # written.id]_vars

\* C4 witness: a second committed store, with the token of the stored customer,
\* returned SUCCESS: two cards, still one customer, which holds the second card
C4_Witness ==
    /\ op = "store"
    /\ args.commit
    /\ Has(args.options, "token")
    /\ Returned(result)
    /\ result.status = "SUCCESS"
    /\ Cardinality(cards) = 2
    /\ customers = {result.obj}
    /\ result.obj.card.id = 2

C6_Classification ==
    (op \in ClassifyOps /\ Returned(result)) =>
        IF ~Has(resp, "response")
        THEN result.status = "FAILURE" /\ result.response = resp
        ELSE /\ result.response = resp.response
             /\ result.status \in {"SUCCESS", "FAILURE"}
             /\ IF ~Has(resp.response, "success")
                THEN result.status = "SUCCESS"
                ELSE result.status = "SUCCESS" <=> resp.response.success = "true"

\* C6 witness: an envelope with success false was classified FAILURE
C6_Witness ==
    /\ op \in ClassifyOps
    /\ Returned(result)
    /\ Has(resp, "response")
    /\ Has(resp.response, "success")
    /\ resp.response.success = "false"
    /\ result.status = "FAILURE"

\* C7 (as claimed): authorize with a valid card and billing address POSTs once
\* to /cards, returns the result dict, and saves no charge
C7_AuthorizeReturns ==
    (op = "authorize" /\ CanBuildCard(args.options)) =>
        /\ Len(requests) = 1
        /\ requests[1].method = "post"
        /\ requests[1].url = <<"/cards">>
        /\ \A i \in DOMAIN log : log[i] # "save_charge"
        /\ Returned(result)
        /\ {"status", "response", "obj"} \subseteq DOMAIN result

\* C8: a capture that returns after a committed SUCCESS, or after any save,
\* has added exactly one charge, with no card, and left the cards and the
\* customers alone; such a purchase has added exactly one card and one charge,
\* the charge holding that card
C8_CaptureAsymmetry ==
    [][(op' \in {"capture", "purchase"} /\ Returned(result')
            /\ (SavesOf(log') # {}
                \/ (args'.commit /\ result'.status = "SUCCESS"))) =>
          /\ customers' = customers
          /\ \A i \in DOMAIN log' : log'[i] # "save_customer"
          /\ Cardinality({i \in DOMAIN log' : log'[i] = "save_charge"}) = 1
          /\ \E ch \in charges' \ charges :
                /\ charges' = charges \cup {ch}
                /\ ch = result'.obj
                /\ IF op' = "capture"
                   THEN /\ cards' = cards
                        /\ ch.card = None
                        /\ \A i \in DOMAIN log' : log'[i] # "save_card"
                   ELSE /\ Cardinality(cards' \ cards) = 1
                        /\ cards \subseteq cards'
                        /\ ch.card \in cards' \ cards]_vars

\* C8 witness: after a purchase stored a card, a committed capture returned
\* SUCCESS: its charge has no card
C8_Witness ==
    /\ op = "capture"
    /\ args.commit
    /\ Returned(result)
    /\ result.status = "SUCCESS"
    /\ cards # {}
    /\ result.obj \in charges
    /\ result.obj.card = None
    /\ \E ch \in charges : ch.card \in cards

\* the integer a str of digits denotes
RECURSIVE ParseNat(_)
ParseNat(w) ==
    IF w = <<>> THEN 0
    ELSE 10 * ParseNat(SubSeq(w, 1, Len(w) - 1))
         + (CHOOSE d \in 0..9 : Digits[d + 1] = w[Len(w)])

ParseInt(w) == IF w[1] = "-" THEN -ParseNat(Tail(w)) ELSE ParseNat(w)

\* C9 (as claimed): the wire amount is floor(amount * 100), for either sign
C9_AmountIsFloor ==
    op = "_pin_base" =>
        ParseInt(result.amount) * Scale <= args.money * 100
        /\ args.money * 100 < (ParseInt(result.amount) + 1) * Scale

\* C9 (amended): the wire amount is amount * 100 with its fraction dropped,
\* toward zero: the floor for an amount >= 0, the ceiling for an amount < 0;
\* it is never further from zero than amount * 100 and less than one minor
\* unit away from it
C9_AmountTruncates ==
    op = "_pin_base" =>
        LET n == ParseInt(result.amount)
            x == args.money * 100
        IN  /\ result.amount = str(n)
            /\ IF args.money >= 0
               THEN n * Scale <= x /\ x < (n + 1) * Scale
               ELSE (n - 1) * Scale < x /\ x <= n * Scale

\* C9 witness: a negative amount with a fraction of a minor unit was converted
C9_Witness ==
    /\ op = "_pin_base"
    /\ args.money < 0
    /\ (args.money * 100) % Scale # 0
    /\ Len(result.amount) >= 1

\* C10 (as claimed): no save of a call comes before the call's signal
C10_SignalBeforeSave ==
    \A i \in DOMAIN log :
        log[i] \in SaveSteps => \E j \in DOMAIN log : j < i /\ log[j] = "signal"

====
